---- MODULE Spec2Model ----
(***************************************************************************)
(* A model of the incfg configuration-option library (incfg.hpp,           *)
(* incfg.cpp) used by a program that requires the options opt1 (int),      *)
(* opt3 (std::string) and opt5 (bool) of test.cpp.                          *)
(*                                                                         *)
(* Strings are sequences of one-character strings, so that every           *)
(* conversion (formatting, parsing, quoting, space removal, line           *)
(* splitting) is computed character by character as the code does it.      *)
(***************************************************************************)
EXTENDS Integers, Sequences, FiniteSets, TLC

(***************************************************************************)
(* Bounds of the model.                                                    *)
(***************************************************************************)
\* the largest number of lines of a text a loader is given
MaxLines == 2
\* the largest argc a command line is given
MaxArgc == 3
\* option_by_index is called with the indices 0..MaxIndex
MaxIndex == 5

(***************************************************************************)
(* Characters.                                                             *)
(***************************************************************************)
\* the characters of the model in the order of their codes (std::string
\* compares byte by byte)
Alphabet == <<"\t", "\n", "\r", " ", "!", "\"", "#", "+", "-",
              "0", "1", "2", "3", "4", "5", "6", "7", "8", "9", "=",
              "a", "b", "c", "d", "e", "f", "g", "h", "i", "j", "k", "l", "m",
              "n", "o", "p", "q", "r", "s", "t", "u", "v", "w", "x", "y", "z">>

CharCode(c) == CHOOSE i \in 1..Len(Alphabet) : Alphabet[i] = c

Digits == <<"0", "1", "2", "3", "4", "5", "6", "7", "8", "9">>

IsDigit(c) == \E i \in 1..10 : Digits[i] = c

DigitVal(c) == (CHOOSE i \in 1..10 : Digits[i] = c) - 1

\* std::isspace in the "C" locale, over the characters of the model
IsSpace(c) == c \in {" ", "\t", "\n", "\r"}

\* std::string::operator< : lexicographic, byte by byte
RECURSIVE StrLess(_, _)
StrLess(a, b) ==
    IF b = <<>> THEN FALSE
    ELSE IF a = <<>> THEN TRUE
    ELSE IF Head(a) = Head(b) THEN StrLess(Tail(a), Tail(b))
    ELSE CharCode(Head(a)) < CharCode(Head(b))

\* s.substr(pos, count), pos 0-based, count clipped to the end of s
Substr(s, pos, count) ==
    LET last == IF pos + count > Len(s) THEN Len(s) ELSE pos + count
    IN  IF pos >= Len(s) \/ count <= 0 THEN <<>> ELSE SubSeq(s, pos + 1, last)

\* s.find_first_of(c): the 0-based index of the first c, Len(s) + 1 for npos
FindFirstOf(s, c) ==
    IF \E i \in 1..Len(s) : s[i] = c
    THEN (CHOOSE i \in 1..Len(s) : s[i] = c /\ \A j \in 1..(i - 1) : s[j] # c) - 1
    ELSE Len(s) + 1

\* s.find_last_of(c): the 0-based index of the last c, Len(s) + 1 for npos
FindLastOf(s, c) ==
    IF \E i \in 1..Len(s) : s[i] = c
    THEN (CHOOSE i \in 1..Len(s) : s[i] = c /\ \A j \in (i + 1)..Len(s) : s[j] # c) - 1
    ELSE Len(s) + 1

Npos(s) == Len(s) + 1

\* std::remove(first, last, ' ') followed by erase: s without its spaces
RemoveSpaces(s) == SelectSeq(s, LAMBDA c : c # " ")

(***************************************************************************)
(* Value codec: to_string_helper / from_string_helper.                     *)
(***************************************************************************)
\* the largest int (32 bits)
IntMax == 2147483647
IntMin == (-IntMax) - 1

RECURSIVE NatToString(_)
NatToString(n) ==
    IF n < 10 THEN <<Digits[n + 1]>>
    ELSE NatToString(n \div 10) \o <<Digits[(n % 10) + 1]>>

\* to_string_helper<int>: operator<< of a stringstream, decimal
IntToString(v) == IF v < 0 THEN <<"-">> \o NatToString(-v) ELSE NatToString(v)

\* to_string_helper<bool>
BoolToString(v) == IF v THEN <<"t", "r", "u", "e">> ELSE <<"f", "a", "l", "s", "e">>

\* to_string_helper<std::string> without its specialization: the value as
\* operator<< writes it, with no quotes
StringToStringUnquoted(v) == v

\* to_string_helper<std::string>: the value between two double quotes
StringToString(v) == <<"\"">> \o v \o <<"\"">>

RECURSIVE SkipWs(_)
SkipWs(s) == IF s # <<>> /\ IsSpace(Head(s)) THEN SkipWs(Tail(s)) ELSE s

RECURSIVE DigitPrefix(_)
DigitPrefix(s) ==
    IF s # <<>> /\ IsDigit(Head(s)) THEN <<Head(s)>> \o DigitPrefix(Tail(s)) ELSE <<>>

\* The digits ds accumulated as a negative number, so that the magnitude
\* 2^31 of INT_MIN is reached without leaving 32 bits; 1 stands for a
\* magnitude beyond 2^31.
RECURSIVE NegAccumulate(_, _)
NegAccumulate(ds, acc) ==
    IF ds = <<>> \/ acc = 1 THEN acc
    ELSE LET d == DigitVal(Head(ds))
             lim == IF d = 0 THEN IntMax \div 10 ELSE ((IntMax - d) + 1) \div 10
         IN  IF acc < -lim THEN 1
             ELSE NegAccumulate(Tail(ds), (acc * 10) - d)

\* operator>> of a stringstream into an int: leading white space is skipped,
\* an optional sign and the longest run of digits are read, the rest of the
\* string is left in the stream; failbit when no digit is read or the number
\* does not fit.
ExtractInt(str) ==
    LET s == SkipWs(str)
        signed == s # <<>> /\ Head(s) \in {"-", "+"}
        neg == s # <<>> /\ Head(s) = "-"
        ds == DigitPrefix(IF signed THEN Tail(s) ELSE s)
        acc == NegAccumulate(ds, 0)
    IN  IF ds = <<>> THEN [fail |-> TRUE, val |-> 0]
        ELSE IF acc = 1 THEN [fail |-> TRUE, val |-> IF neg THEN IntMin ELSE IntMax]
        ELSE IF neg THEN [fail |-> FALSE, val |-> acc]
        ELSE IF acc = IntMin THEN [fail |-> TRUE, val |-> IntMax]
        ELSE [fail |-> FALSE, val |-> -acc]

\* from_string_helper<T>, T = int: throws when the extraction set failbit
FromStringInt(str) == ExtractInt(str)

\* from_string_helper<bool> taking "1" for true as well
FromStringBoolLenient(str) ==
    IF str = <<"1">> THEN [fail |-> FALSE, val |-> TRUE]
    ELSE IF str # <<"t", "r", "u", "e">> /\ str # <<"f", "a", "l", "s", "e">>
    THEN [fail |-> TRUE, val |-> FALSE]
    ELSE [fail |-> FALSE, val |-> (str = <<"t", "r", "u", "e">>)]

\* from_string_helper<bool>
FromStringBool(str) ==
    IF str # <<"t", "r", "u", "e">> /\ str # <<"f", "a", "l", "s", "e">>
    THEN [fail |-> TRUE, val |-> FALSE]
    ELSE [fail |-> FALSE, val |-> (str = <<"t", "r", "u", "e">>)]

\* from_string_helper<std::string>: never throws
FromStringString(str) ==
    IF Len(str) < 2 THEN [fail |-> FALSE, val |-> str]
    ELSE IF str[1] = "\"" /\ str[Len(str)] = "\""
         THEN [fail |-> FALSE, val |-> Substr(str, 1, Len(str) - 2)]
         ELSE [fail |-> FALSE, val |-> str]

(***************************************************************************)
(* Option records (the classes INCFG_REQUIRE generates).                   *)
(***************************************************************************)
\* the options the program requires: INCFG_REQUIRE( TYPE, NAME, DEFAULT, DESCRIPTION )
DeclaredNames == {<<"o", "p", "t", "1">>, <<"o", "p", "t", "3">>, <<"o", "p", "t", "5">>}

Declared(k) ==
    CASE k = <<"o", "p", "t", "1">> -> [type |-> "int", dflt |-> 10, description |-> <<"o", "p", "t", "i", "o", "n", " ", "1">>]
      [] k = <<"o", "p", "t", "3">> -> [type |-> "string", dflt |-> <<"o", "p", "t", "3", "!">>, description |-> <<"o", "p", "t", "i", "o", "n", " ", "3">>]
      [] k = <<"o", "p", "t", "5">> -> [type |-> "bool", dflt |-> FALSE, description |-> <<"b", "o", "o", "l", "e", "a", "n", " ", "f", "a", "l", "s", "e", " ", "o", "p", "t", "i", "o", "n">>]

\* the static instance incfg_NAME_Option_instance( DEFAULTVAL ): is_def(true), value(v)
NewOption(k) ==
    [name |-> k, description |-> Declared(k).description, type |-> Declared(k).type,
     value |-> Declared(k).dflt, is_def |-> TRUE]

\* a null Option* stored in the map
NullOption == [type |-> "null"]

IsNull(o) == o.type = "null"

\* is_bool(): is_boolean< TYPE >( value )
IsBool(o) == o.type = "bool"

\* is_default()
IsDefault(o) == o.is_def

\* get_value_as_str(): to_string_helper< TYPE >( value )
GetValueAsStr(o) ==
    CASE o.type = "int" -> IntToString(o.value)
      [] o.type = "bool" -> BoolToString(o.value)
      [] o.type = "string" -> StringToString(o.value)

\* set( new_value ) with is_def = (new_value == value): the flag is no
\* longer kept false
SetValueCompareOnly(o, new_value) ==
    [o EXCEPT !.is_def = (new_value = o.value), !.value = new_value]

\* set( new_value )
SetValue(o, new_value) ==
    [o EXCEPT !.is_def = o.is_def /\ (new_value = o.value), !.value = new_value]

\* from_string_helper< TYPE >( str, value )
FromString(type, str) ==
    CASE type = "int" -> FromStringInt(str)
      [] type = "bool" -> FromStringBool(str)
      [] type = "string" -> FromStringString(str)

\* parse_value_from_str( str ) storing what the extraction left in val
\* before the failure is reported
ParseValueFromStrPartial(o, str) ==
    LET r == FromString(o.type, str)
    IN  IF r.fail THEN [opt |-> SetValue(o, r.val), err |-> "ParseError"]
        ELSE [opt |-> SetValue(o, r.val), err |-> "none"]

\* parse_value_from_str( str ): set( from_string_helper< TYPE >( str, value ) );
\* the helper throws StringParseException before set is entered
ParseValueFromStr(o, str) ==
    LET r == FromString(o.type, str)
    IN  IF r.fail THEN [opt |-> o, err |-> "ParseError"]
        ELSE [opt |-> SetValue(o, r.val), err |-> "none"]

(***************************************************************************)
(* The registry: ConfigOptions.                                            *)
(***************************************************************************)
\* the registry once the static instances are constructed: each constructor
\* runs add_option( this )
InitOptions == [k \in DeclaredNames |-> NewOption(k)]

\* get( name ): options[ name ]; std::map::operator[] inserts a null pointer
\* for a key that is not in the map and returns it
GetOption(opts, name) ==
    IF name \in DOMAIN opts
    THEN [options |-> opts, result |-> opts[name]]
    ELSE [options |-> [k \in (DOMAIN opts) \cup {name} |->
                          IF k = name THEN NullOption ELSE opts[k]],
          result |-> NullOption]

\* the keys in the iteration order of std::map< std::string, Option* >
RECURSIVE KeyOrder(_)
KeyOrder(keys) ==
    IF keys = {} THEN <<>>
    ELSE LET m == CHOOSE k \in keys : \A j \in keys \ {k} : StrLess(k, j)
         IN  <<m>> \o KeyOrder(keys \ {m})

\* to_config_string() with the prefix test the wrong way round
EntryTextInverted(key, o) ==
    (IF Len(o.description) > 0
     THEN <<"#", " ">> \o o.description \o <<"\n">> \o <<"#", " ">> \o <<"\n">>
     ELSE <<>>)
    \o (IF IsDefault(o) THEN <<>> ELSE <<"#">>) \o key \o <<"=">> \o GetValueAsStr(o)
    \o <<"\n", "\n">>

\* what to_config_string() writes for one entry
EntryText(key, o) ==
    (IF Len(o.description) > 0
     THEN <<"#", " ">> \o o.description \o <<"\n">> \o <<"#", " ">> \o <<"\n">>
     ELSE <<>>)
    \o (IF IsDefault(o) THEN <<"#">> ELSE <<>>) \o key \o <<"=">> \o GetValueAsStr(o)
    \o <<"\n", "\n">>

RECURSIVE ConcatAll(_)
ConcatAll(ss) == IF ss = <<>> THEN <<>> ELSE Head(ss) \o ConcatAll(Tail(ss))

\* to_config_string(): dereferences every it->second; a null entry is a null
\* pointer dereference
ToConfigString(opts) ==
    LET order == KeyOrder(DOMAIN opts)
    IN  IF \E k \in DOMAIN opts : IsNull(opts[k])
        THEN [crash |-> TRUE, text |-> <<>>]
        ELSE [crash |-> FALSE,
              text |-> ConcatAll([i \in 1..Len(order) |-> EntryText(order[i], opts[order[i]])])]

\* size(): options.size()
Size(opts) == Cardinality(DOMAIN opts)

\* option_by_index( i ): the iterator starts at options.begin() and is
\* incremented i times, whatever the size of the map; it->second is returned
\* when the iterator is not options.end(), else 0. Incrementing the iterator
\* at options.end() is undefined: the call may crash, or come back with 0 or
\* with a pointer that is no option of the registry (pastEnd tells that the
\* iterator was incremented at options.end()).
OptionByIndex(opts, i) ==
    LET order == KeyOrder(DOMAIN opts)
    IN  IF i < Size(opts)
        THEN {[crash |-> FALSE, pastEnd |-> FALSE, name |-> order[i + 1],
               result |-> IF IsNull(opts[order[i + 1]]) THEN "null" ELSE "option"]}
        ELSE IF i = Size(opts)
        THEN {[crash |-> FALSE, pastEnd |-> FALSE, name |-> <<>>, result |-> "null"]}
        ELSE {[crash |-> TRUE, pastEnd |-> TRUE, name |-> <<>>, result |-> "none"],
              [crash |-> FALSE, pastEnd |-> TRUE, name |-> <<>>, result |-> "null"],
              [crash |-> FALSE, pastEnd |-> TRUE, name |-> <<>>, result |-> "garbage"]}

\* add_if_possible( key, value )
AddIfPossible(opts, key, value) ==
    IF key \notin DOMAIN opts
    THEN [options |-> opts, err |-> "UnknownKey", crash |-> FALSE]
    ELSE IF IsNull(opts[key])
    THEN [options |-> opts, err |-> "none", crash |-> TRUE]
    ELSE LET r == ParseValueFromStr(opts[key], value)
         IN  [options |-> [opts EXCEPT ![key] = r.opt], err |-> r.err, crash |-> FALSE]

(***************************************************************************)
(* load( std::istream& ): the stream and one pass of the loop.             *)
(***************************************************************************)
\* A stream: buf, the characters not yet read; more, the number of further
\* lines the source will still deliver (their text is chosen when they are
\* read); term, whether the last of these ends with a line break; eofbit and
\* failbit.
Stream(buf, more, term, fail) ==
    [buf |-> buf, more |-> more, term |-> term, eof |-> FALSE, fail |-> fail]

NoStream == Stream(<<>>, 0, TRUE, FALSE)

\* the source delivers its next line l into the stream's buffer
Refill(s, l) ==
    IF s.buf = <<>> /\ s.more > 0
    THEN [s EXCEPT !.buf = l \o (IF s.more > 1 \/ s.term THEN <<"\n">> ELSE <<>>),
                   !.more = s.more - 1]
    ELSE s

\* std::getline( _isr, buff ): nothing is read and buff is kept when the
\* stream is not good; else buff is erased and filled up to the line break
\* (dropped) or the end of the stream (eofbit; failbit too when no character
\* was read)
GetLine(s, b) ==
    IF s.eof \/ s.fail
    THEN [isr |-> [s EXCEPT !.fail = TRUE], buff |-> b]
    ELSE LET nl == FindFirstOf(s.buf, "\n")
         IN  IF nl # Npos(s.buf)
             THEN [isr |-> [s EXCEPT !.buf = Substr(s.buf, nl + 1, Len(s.buf))],
                   buff |-> Substr(s.buf, 0, nl)]
             ELSE [isr |-> [s EXCEPT !.buf = <<>>, !.eof = TRUE, !.fail = (s.buf = <<>>)],
                   buff |-> s.buf]

\* the loop condition as while( !_isr.eof() && !_isr.fail() )
LoopContinuesGood(s) == ~s.eof /\ ~s.fail

\* the loop condition: while( !_isr.eof() || !_isr.fail() )
LoopContinues(s) == ~s.eof \/ ~s.fail

\* buff[0] == '#' || buff[0]==0 || buff[0]=='\n' || buff[0]=='\r'
\* (buff[0] of an empty string is the terminating 0)
IsSkippedLine(b) == b = <<>> \/ Head(b) \in {"#", "\n", "\r"}

\* the spaces erased everywhere in the line, between the quotes too
StripAllSpaces(b) == RemoveSpaces(b)

\* "Remove all spaces before and after a quote": the spaces before the first
\* double quote (of the whole line when it has none) and the spaces from the
\* last double quote on (of nothing more when it has none) are erased
StripSpaces(b) ==
    LET f == FindFirstOf(b, "\"")
        end_idx == IF f = Npos(b) THEN Len(b) ELSE f
        b1 == RemoveSpaces(SubSeq(b, 1, end_idx)) \o SubSeq(b, end_idx + 1, Len(b))
        g == FindLastOf(b1, "\"")
        start_idx == IF g = Npos(b1) THEN 0 ELSE g
    IN  SubSeq(b1, 1, start_idx) \o RemoveSpaces(SubSeq(b1, start_idx + 1, Len(b1)))

\* the line number an error message carries: an unsigned int written in decimal
UnsignedToString(n) == IF n < 0 THEN <<"4", "2", "9", "4", "9", "6", "7", "2", "9", "5">> ELSE NatToString(n)

\* One line that is not skipped: the key and the value around the first '=',
\* then add_if_possible. A StringParseException is caught and thrown again
\* with the key and linenum-1; a ConfigOptionsLoadException passes through.
ProcessLine(opts, b, linenum) ==
    LET s == StripSpaces(b)
        eq_idx == FindFirstOf(s, "=")
        key == Substr(s, 0, eq_idx)
        value == Substr(s, eq_idx + 1, Len(s))
        r == AddIfPossible(opts, key, value)
    IN  IF eq_idx = Npos(s) \/ eq_idx = 0
        THEN [options |-> opts, err |-> "NoKey", crash |-> FALSE, key |-> <<>>,
              value |-> <<>>, line |-> UnsignedToString(linenum)]
        ELSE [options |-> r.options, err |-> r.err, crash |-> r.crash, key |-> key,
              value |-> value,
              line |-> IF r.err = "ParseError" THEN UnsignedToString(linenum - 1) ELSE <<>>]

(***************************************************************************)
(* load( int argc, char* argv[] ): one pass of the loop.                   *)
(***************************************************************************)
\* key.length()<3, or key[0]!='-' && key[1]!='-'
KeyTokenInvalid(key) == Len(key) < 3 \/ (key[1] # "-" /\ key[2] # "-")

\* key.substr(2,key.length()-1)
StripDashes(key) == Substr(key, 2, Len(key) - 1)

\* the test made before the value is read: idx==argc
ValueMissing(i, n) == i = n

\* the test with the length bound of the key test: value.length()>2
LooksLikeLongKey(value) == Len(value) > 2 /\ value[1] = "-" /\ value[2] = "-"

\* value.length()>1 && value[0]=='-' && value[1]=='-'
LooksLikeKey(value) == Len(value) > 1 /\ value[1] = "-" /\ value[2] = "-"

\* every option takes the next argument as its value
TakesValueAlways(o) == TRUE

\* whether the option takes the next argument as its value: the else branch
\* of if( options[key]->is_bool() )
TakesValue(o) == ~IsBool(o)

\* One pass of the loop over argv with idx = i and argc = n: keyTok is
\* argv[i]; val is what argv[i+1] holds when it is read. Reading argv[i+1]
\* with i+1 = n is a read past the arguments: oob says what it gives, a
\* string (val), a crash, or the std::logic_error of std::string built from
\* the null pointer that ends main's argv.
ArgPass(opts, i, n, keyTok, val, oob) ==
    LET key == StripDashes(keyTok)
        base == [options |-> opts, err |-> "none", crash |-> FALSE, idx |-> i,
                 key |-> <<>>, valIdx |-> 0]
    IN  IF KeyTokenInvalid(keyTok) THEN [base EXCEPT !.err = "InvalidOption"]
        ELSE IF key \notin DOMAIN opts THEN [base EXCEPT !.err = "UnknownKey", !.key = key]
        ELSE IF IsNull(opts[key]) THEN [base EXCEPT !.crash = TRUE, !.key = key]
        ELSE IF ~TakesValue(opts[key])
        THEN LET r == ParseValueFromStr(opts[key], <<"t", "r", "u", "e">>)
             IN  [base EXCEPT !.options = [opts EXCEPT ![key] = r.opt], !.err = r.err,
                              !.key = key, !.idx = i + 1]
        ELSE IF ValueMissing(i, n) THEN [base EXCEPT !.err = "MissingValue", !.key = key]
        ELSE IF i + 1 >= n /\ oob = "crash"
        THEN [base EXCEPT !.crash = TRUE, !.key = key, !.valIdx = i + 1, !.idx = i + 1]
        ELSE IF i + 1 >= n /\ oob = "logic_error"
        THEN [base EXCEPT !.err = "LogicError", !.key = key, !.valIdx = i + 1, !.idx = i + 1]
        ELSE IF LooksLikeKey(val)
        THEN [base EXCEPT !.err = "InvalidValue", !.key = key, !.valIdx = i + 1, !.idx = i + 1]
        ELSE LET r == ParseValueFromStr(opts[key], val)
             IN  [base EXCEPT !.options = [opts EXCEPT ![key] = r.opt], !.err = r.err,
                              !.key = key, !.valIdx = i + 1,
                              !.idx = IF r.err = "none" THEN i + 2 ELSE i + 1]

\* whether the pass over keyTok reads argv[i+1]
ReadsValue(opts, i, n, keyTok) ==
    ArgPass(opts, i, n, keyTok, <<>>, "string").valIdx # 0

(***************************************************************************)
(* Inputs.                                                                 *)
(***************************************************************************)
\* values INCFG_SET is called with
SetInputs(k) ==
    CASE Declared(k).type = "int" -> {10, 30}
      [] Declared(k).type = "bool" -> BOOLEAN
      [] Declared(k).type = "string" -> {<<"o", "p", "t", "3", "!">>, <<" ", "\"", "=", "#", " ">>, <<>>}

\* strings parse_value_from_str is called with directly
ParseInputs(k) ==
    CASE Declared(k).type = "int" ->
             {<<"3", "0">>, <<"3", "0", "x">>, <<"a", "3">>, <<"-", "7">>, <<"2", "1", "4", "7", "4", "8", "3", "6", "4", "8">>, <<>>}
      [] Declared(k).type = "bool" -> {<<"t", "r", "u", "e">>, <<"f", "a", "l", "s", "e">>, <<"1">>, <<"T", "r", "u", "e">>, <<>>}
      [] Declared(k).type = "string" -> {<<"\"", " ", "a", " ", "b", " ", "\"">>, <<"\"">>}

\* names get is called with
GetInputs == DeclaredNames \cup {<<"n", "o", "k", "e", "y">>}

\* lines of the texts load( std::istream& ) is given
LineInputs ==
    {<<>>, <<"#", "c">>, <<"o", "p", "t", "1", "=", "3", "0">>, <<"o", "p", "t", "1", "=", "3", "0", "x">>, <<"o", "p", "t", "1", "=", "a", "3">>, <<"o", "p", "t", "1", " ", "=", " ", "-", "7">>,
     <<"o", "p", "t", "5", " ", "=", " ", "t", "r", "u", "e">>, <<"o", "p", "t", "5", "=", "1">>, <<" ", "o", "p", "t", "3", " ", "=", " ", "\"", " ", "a", " ", "b", " ", "\"", " ">>, <<"o", "p", "t", "1">>, <<"=", "5">>,
     <<"z", "z", "=", "1">>, <<"n", "o", "k", "e", "y", "=", "1">>,
     <<" ", " ", "o", "p", "t", "3", " ", "=", " ", " ", "\"", " ", "\"", "=", "#", " ", "\"", " ", " ">>, <<"o", "p", "t", "3", " ", "=", " ", "\"", "\"", " ">>}

\* command-line arguments
ArgTokens ==
    {<<"-", "-", "o", "p", "t", "1">>, <<"-", "-", "o", "p", "t", "3">>, <<"-", "-", "o", "p", "t", "5">>, <<"-", "-", "z", "z">>, <<"-", "-", "n", "o", "k", "e", "y">>, <<"-", "x", "o", "p", "t", "5">>,
     <<"-", "-">>, <<"3", "0">>, <<"3", "0", "x">>, <<"-", "7">>, <<"x">>}

(***************************************************************************)
(* State.                                                                  *)
(***************************************************************************)
VARIABLES
    options,      \* ConfigOptions::options: key -> option record or null
    pc,           \* "main": about to make a call; "load_stream", "load_args":
                  \* inside a loader's loop; "returned": a call has returned
                  \* or thrown, last holds its outcome; "crashed"
    isr,          \* the stream of load( std::istream& )
    buff,         \* its local buff
    linenum,      \* its local linenum
    argc,         \* argc of load( int, char*[] )
    idx,          \* its local idx
    last,         \* the last call, or the last pass of a loader's loop; with
                  \* the history of a load( _isr ): total, the number of lines
                  \* of its input; term, whether the input ends with a line
                  \* break; lineNo, the number (from 1) of the line the pass
                  \* was over; prev, the key of the pass before
    assignedNonDefault,  \* history: per option, whether an assignment supplied
                         \* a value unequal to the declared default
    saved         \* history: the values when the text being loaded was generated

vars == <<options, pc, isr, buff, linenum, argc, idx, last, assignedNonDefault, saved>>

NoCall ==
    [op |-> "none", name |-> <<>>, str |-> <<>>, tok |-> <<>>, err |-> "none",
     line |-> <<>>, keyIdx |-> 0, valIdx |-> 0, argc |-> 0, text |-> <<>>,
     result |-> "none", present |-> FALSE, returned |-> TRUE, restart |-> FALSE,
     total |-> 0, term |-> TRUE, lineNo |-> 0, prev |-> <<>>,
     index |-> 0, count |-> 0, pastEnd |-> FALSE]

NoSaved == [mode |-> "none", values |-> <<>>]

\* history: option key was assigned by a call that ended with err and left opts
NoteAssigned(nd, key, err, opts) ==
    IF err = "none" /\ key \in DeclaredNames /\ key \in DOMAIN opts
    THEN [nd EXCEPT ![key] = @ \/ (opts[key].value # Declared(key).dflt)]
    ELSE nd

Init ==
    /\ options = InitOptions
    /\ pc = "main"
    /\ isr = NoStream
    /\ buff = <<>>
    /\ linenum = 0
    /\ argc = 0
    /\ idx = 0
    /\ last = NoCall
    /\ assignedNonDefault = [k \in DeclaredNames |-> FALSE]
    /\ saved = NoSaved

LoaderIdle ==
    /\ isr' = NoStream
    /\ buff' = <<>>
    /\ linenum' = 0
    /\ argc' = 0
    /\ idx' = 0

\* a null pointer is dereferenced, or memory past argv is used
Crash ==
    /\ pc' = "crashed"
    /\ LoaderIdle
    /\ UNCHANGED <<options, assignedNonDefault, saved>>

(***************************************************************************)
(* Calls made by the program.                                              *)
(***************************************************************************)
\* the caller has the outcome of the call and goes on
Resume ==
    /\ pc = "returned"
    /\ pc' = "main"
    /\ last' = NoCall
    /\ saved' = NoSaved
    /\ UNCHANGED <<options, isr, buff, linenum, argc, idx, assignedNonDefault>>

\* INCFG_SET( k, v ): get( "k" )->set( v )
Set(k, v) ==
    /\ pc = "main"
    /\ LET g == GetOption(options, k)
       IN  /\ options' = [g.options EXCEPT ![k] = SetValue(g.result, v)]
           /\ assignedNonDefault' = NoteAssigned(assignedNonDefault, k, "none", options')
    /\ last' = [NoCall EXCEPT !.op = "set", !.name = k]
    /\ pc' = "returned"
    /\ UNCHANGED <<isr, buff, linenum, argc, idx, saved>>

\* get( "k" )->parse_value_from_str( s )
Parse(k, s) ==
    /\ pc = "main"
    /\ LET g == GetOption(options, k)
           r == ParseValueFromStr(g.result, s)
       IN  /\ options' = [g.options EXCEPT ![k] = r.opt]
           /\ assignedNonDefault' = NoteAssigned(assignedNonDefault, k, r.err, options')
           /\ last' = [NoCall EXCEPT !.op = "parse", !.name = k, !.str = s, !.err = r.err]
    /\ pc' = "returned"
    /\ UNCHANGED <<isr, buff, linenum, argc, idx, saved>>

\* get( name )
Get(name) ==
    /\ pc = "main"
    /\ LET g == GetOption(options, name)
       IN  /\ options' = g.options
           /\ last' = [NoCall EXCEPT !.op = "get", !.name = name,
                                     !.present = (name \in DOMAIN options),
                                     !.result = IF IsNull(g.result) THEN "null" ELSE "option"]
    /\ pc' = "returned"
    /\ UNCHANGED <<isr, buff, linenum, argc, idx, assignedNonDefault, saved>>

\* to_config_string()
ConfigString ==
    /\ pc = "main"
    /\ LET c == ToConfigString(options)
       IN  IF c.crash
           THEN /\ Crash
                /\ last' = [NoCall EXCEPT !.op = "to_config_string", !.returned = FALSE]
           ELSE /\ last' = [NoCall EXCEPT !.op = "to_config_string", !.text = c.text]
                /\ pc' = "returned"
                /\ UNCHANGED <<options, isr, buff, linenum, argc, idx, assignedNonDefault,
                               saved>>

\* size()
GetSize ==
    /\ pc = "main"
    /\ last' = [NoCall EXCEPT !.op = "size", !.count = Size(options)]
    /\ pc' = "returned"
    /\ UNCHANGED <<options, isr, buff, linenum, argc, idx, assignedNonDefault, saved>>

\* option_by_index( i )
GetByIndex(i) ==
    /\ pc = "main"
    /\ \E r \in OptionByIndex(options, i) :
         LET call == [NoCall EXCEPT !.op = "option_by_index", !.index = i,
                                    !.name = r.name, !.result = r.result,
                                    !.pastEnd = r.pastEnd]
         IN  IF r.crash
             THEN /\ Crash
                  /\ last' = [call EXCEPT !.returned = FALSE]
             ELSE /\ last' = call
                  /\ pc' = "returned"
                  /\ UNCHANGED <<options, isr, buff, linenum, argc, idx,
                                 assignedNonDefault, saved>>

(***************************************************************************)
(* load( std::istream& ) and load( std::string& ).                         *)
(***************************************************************************)
\* the streams load is called with: unreadable, or good with up to MaxLines
\* lines, the last one with or without its line break
StreamInputs ==
    {Stream(<<>>, 0, TRUE, TRUE)}
    \cup {Stream(<<>>, m, TRUE, FALSE) : m \in 0..MaxLines}
    \cup {Stream(<<>>, m, FALSE, FALSE) : m \in 1..MaxLines}

\* the lines the source may deliver at the next std::getline (a last line
\* without a line break is not empty)
RefillChoices(s) ==
    IF ~s.eof /\ ~s.fail /\ s.buf = <<>> /\ s.more > 0
    THEN IF s.more = 1 /\ ~s.term THEN LineInputs \ {<<>>} ELSE LineInputs
    ELSE {<<>>}

\* the number of lines of a text: its line breaks, and one more for a last
\* line without a line break
RECURSIVE CountLines(_)
CountLines(text) ==
    IF text = <<>> THEN 0
    ELSE IF FindFirstOf(text, "\n") = Npos(text) THEN 1
    ELSE 1 + CountLines(Substr(text, FindFirstOf(text, "\n") + 1, Len(text)))

\* history: the input a load( _isr ) of stream s starts with
InputOf(s) ==
    [total |-> s.more + CountLines(s.buf),
     term |-> IF s.more > 0 THEN s.term
              ELSE s.buf = <<>> \/ s.buf[Len(s.buf)] = "\n"]

\* load( _isr ) up to the first test of the loop condition
EnterLoad(s, l, restart) ==
    IF s.fail
    THEN /\ pc' = "returned"
         /\ LoaderIdle
         /\ last' = [NoCall EXCEPT !.op = "load_stream", !.err = "IOError",
                                   !.restart = restart]
    ELSE LET g == GetLine(Refill(s, l), <<>>)
         IN  IF LoopContinues(g.isr)
             THEN /\ pc' = "load_stream"
                  /\ isr' = g.isr
                  /\ buff' = g.buff
                  /\ linenum' = 0
                  /\ argc' = 0
                  /\ idx' = 0
                  /\ last' = [NoCall EXCEPT !.op = "load_stream", !.returned = FALSE,
                                            !.restart = restart,
                                            !.total = InputOf(s).total,
                                            !.term = InputOf(s).term]
             ELSE /\ pc' = "returned"
                  /\ LoaderIdle
                  /\ last' = [NoCall EXCEPT !.op = "load_stream", !.restart = restart,
                                            !.total = InputOf(s).total,
                                            !.term = InputOf(s).term]

\* load( _isr ) / load( _str ) called with a text from outside
LoadStream ==
    /\ pc = "main"
    /\ \E s \in StreamInputs : \E l \in RefillChoices(s) : EnterLoad(s, l, FALSE)
    /\ UNCHANGED <<options, assignedNonDefault, saved>>

\* conf = to_config_string(); load( conf ), in the same process (mode "same",
\* test.cpp:208-210) or with conf loaded by a new run of the program, whose
\* options are at their defaults (mode "fresh")
Reload(mode) ==
    /\ pc = "main"
    /\ LET c == ToConfigString(options)
       IN  IF c.crash
           THEN /\ Crash
                /\ last' = [NoCall EXCEPT !.op = "to_config_string", !.returned = FALSE]
           ELSE /\ saved' = [mode |-> mode,
                             values |-> [k \in DOMAIN options |-> options[k].value]]
                /\ options' = IF mode = "fresh" THEN InitOptions ELSE options
                /\ assignedNonDefault' =
                       IF mode = "fresh" THEN [k \in DeclaredNames |-> FALSE]
                       ELSE assignedNonDefault
                /\ EnterLoad(Stream(c.text, 0, TRUE, FALSE), <<>>, mode = "fresh")

\* the end of a pass: std::getline( _isr, buff ); linenum++; and the test of
\* the loop condition
NextLine(l, line) ==
    LET g == GetLine(Refill(isr, l), buff)
    IN  IF LoopContinues(g.isr)
        THEN /\ pc' = pc
             /\ isr' = g.isr
             /\ buff' = g.buff
             /\ linenum' = linenum + 1
             /\ UNCHANGED <<argc, idx>>
             /\ last' = [line EXCEPT !.returned = FALSE]
        ELSE /\ pc' = "returned"
             /\ LoaderIdle
             /\ last' = line

\* one pass of the loop of load( _isr )
LoadStreamStep ==
    /\ pc = "load_stream"
    /\ LET line == [NoCall EXCEPT !.op = "line", !.str = buff, !.total = last.total,
                                  !.term = last.term, !.lineNo = last.lineNo + 1,
                                  !.prev = last.name]
       IN  IF IsSkippedLine(buff)
           THEN /\ \E l \in RefillChoices(isr) : NextLine(l, [line EXCEPT !.result = "skipped"])
                /\ UNCHANGED <<options, assignedNonDefault, saved>>
           ELSE LET r == ProcessLine(options, buff, linenum)
                    done == [line EXCEPT !.name = r.key, !.err = r.err, !.line = r.line,
                                         !.result = "processed"]
                IN  IF r.crash
                    THEN /\ Crash
                         /\ last' = [done EXCEPT !.returned = FALSE]
                    ELSE /\ options' = r.options
                         /\ assignedNonDefault' =
                                NoteAssigned(assignedNonDefault, r.key, r.err, r.options)
                         /\ saved' = saved
                         /\ IF r.err # "none"
                            THEN /\ pc' = "returned"
                                 /\ LoaderIdle
                                 /\ last' = done
                            ELSE \E l \in RefillChoices(isr) : NextLine(l, done)

(***************************************************************************)
(* load( int argc, char* argv[] ).                                         *)
(***************************************************************************)
\* load( n, argv ) up to the first test of idx<argc
LoadArgs(n) ==
    /\ pc = "main"
    /\ IF n < 2
       THEN /\ LoaderIdle
            /\ pc' = "returned"
            /\ last' = [NoCall EXCEPT !.op = "load_args", !.argc = n]
       ELSE /\ pc' = "load_args"
            /\ argc' = n
            /\ idx' = 1
            /\ UNCHANGED <<isr, buff, linenum>>
            /\ last' = [NoCall EXCEPT !.op = "load_args", !.argc = n, !.returned = FALSE]
    /\ UNCHANGED <<options, assignedNonDefault, saved>>

\* what argv[idx+1] gives when the pass over keyTok reads it
ValueReads(keyTok) ==
    IF ~ReadsValue(options, idx, argc, keyTok) THEN {<<<<>>, "string">>}
    ELSE {<<t, "string">> : t \in ArgTokens}
         \cup (IF idx + 1 >= argc THEN {<<<<>>, "crash">>, <<<<>>, "logic_error">>} ELSE {})

\* one pass of the loop of load( argc, argv )
ArgStep ==
    /\ pc = "load_args"
    /\ \E keyTok \in ArgTokens : \E v \in ValueReads(keyTok) :
         LET r == ArgPass(options, idx, argc, keyTok, v[1], v[2])
             pass == [NoCall EXCEPT !.op = "arg", !.tok = keyTok, !.name = r.key,
                                    !.str = v[1], !.err = r.err, !.keyIdx = idx,
                                    !.valIdx = r.valIdx, !.argc = argc,
                                    !.result = v[2]]
         IN  IF r.crash
             THEN /\ Crash
                  /\ last' = [pass EXCEPT !.returned = FALSE]
             ELSE /\ options' = r.options
                  /\ assignedNonDefault' =
                         NoteAssigned(assignedNonDefault, r.key, r.err, r.options)
                  /\ saved' = saved
                  /\ IF r.err = "none" /\ r.idx < argc
                     THEN /\ pc' = pc
                          /\ idx' = r.idx
                          /\ UNCHANGED <<isr, buff, linenum, argc>>
                          /\ last' = [pass EXCEPT !.returned = FALSE]
                     ELSE /\ pc' = "returned"
                          /\ LoaderIdle
                          /\ last' = pass

(***************************************************************************)
(* The program.                                                            *)
(***************************************************************************)
Next ==
    \/ \E k \in DeclaredNames : \E v \in SetInputs(k) : Set(k, v)
    \/ \E k \in DeclaredNames : \E s \in ParseInputs(k) : Parse(k, s)
    \/ \E name \in GetInputs : Get(name)
    \/ ConfigString
    \/ GetSize
    \/ \E i \in 0..MaxIndex : GetByIndex(i)
    \/ LoadStream
    \/ \E mode \in {"same", "fresh"} : Reload(mode)
    \/ LoadStreamStep
    \/ \E n \in 0..MaxArgc : LoadArgs(n)
    \/ ArgStep
    \/ Resume

Spec == Init /\ [][Next]_vars

\* The loop of load( _isr ), once entered, keeps running: a pass that can be
\* made is made. This is WF_vars(LoadStreamStep), written out as
\* []<>~ENABLED <<LoadStreamStep>>_vars \/ []<><<LoadStreamStep>>_vars with
\* the enabling condition of the pass in place of ENABLED: a pass can be made
\* exactly when the loop is running, and every pass changes last.
LoadStreamStepEnabled == pc = "load_stream"

LiveSpec == Spec /\ ([]<>~LoadStreamStepEnabled \/ []<><<LoadStreamStep>>_vars)

(***************************************************************************)
(* Reading a generated config-string.                                      *)
(***************************************************************************)
\* the lines of a text, each without its line break
RECURSIVE LinesOf(_)
LinesOf(text) ==
    IF text = <<>> THEN <<>>
    ELSE LET nl == FindFirstOf(text, "\n")
         IN  IF nl = Npos(text) THEN <<text>>
             ELSE <<Substr(text, 0, nl)>> \o LinesOf(Substr(text, nl + 1, Len(text)))

StartsWith(l, p) == Len(l) >= Len(p) /\ SubSeq(l, 1, Len(p)) = p

\* the lines of text that assign option k, commented out or not
AssignLines(text, k) ==
    LET ls == LinesOf(text)
    IN  {i \in 1..Len(ls) : StartsWith(ls[i], k \o <<"=">>)
                            \/ StartsWith(ls[i], <<"#">> \o k \o <<"=">>)}

\* option k has one assignment line in text, and it begins with '#'
HasHash(text, k) ==
    LET ls == LinesOf(text)
    IN  /\ Cardinality(AssignLines(text, k)) = 1
        /\ \A i \in AssignLines(text, k) : Head(ls[i]) = "#"

\* option k has one assignment line in text, and it does not begin with '#'
HasNoHash(text, k) ==
    LET ls == LinesOf(text)
    IN  /\ Cardinality(AssignLines(text, k)) = 1
        /\ \A i \in AssignLines(text, k) : Head(ls[i]) # "#"

\* to_config_string() has just returned its text
TextReturned == pc = "returned" /\ last.op = "to_config_string"

(***************************************************************************)
(* C1  Round trip.  When the text of to_config_string() has been loaded    *)
(* back, into the registry that generated it or into the registry of a     *)
(* new run (all options at their defaults), the load has ended without     *)
(* error and every option holds the value it had when the text was         *)
(* generated; the load never crashes.                                      *)
(***************************************************************************)
C1_RoundTrip ==
    saved.mode # "none" =>
        /\ pc # "crashed"
        /\ pc = "returned" =>
             /\ last.err = "none"
             /\ DOMAIN options = DOMAIN saved.values
             /\ \A k \in DOMAIN saved.values : options[k].value = saved.values[k]

\* a new run has loaded a text generated with all three options changed, the
\* string one to a value with spaces, a double quote, '=' and '#'
C1_Witness ==
    /\ pc = "returned"
    /\ saved.mode = "fresh"
    /\ options[<<"o", "p", "t", "1">>].value = -7
    /\ options[<<"o", "p", "t", "3">>].value = <<" ", "\"", "=", "#", " ">>
    /\ options[<<"o", "p", "t", "5">>].value = TRUE

(***************************************************************************)
(* C2  Default marking is sticky.  In every state, is_default() of an      *)
(* option is true iff no assignment so far supplied a value unequal to     *)
(* its declared default, and then the value is the default; within one     *)
(* run, once is_default() is false it stays false; and the text of         *)
(* to_config_string() has the option's assignment line begin with '#'      *)
(* exactly when is_default() is true.                                      *)
(***************************************************************************)
C2_DefaultFlag ==
    \A k \in DeclaredNames :
        /\ IsDefault(options[k]) = ~assignedNonDefault[k]
        /\ IsDefault(options[k]) => options[k].value = Declared(k).dflt

C2_Marking ==
    TextReturned =>
        \A k \in DeclaredNames :
            /\ IsDefault(options[k]) => HasHash(last.text, k)
            /\ ~IsDefault(options[k]) => HasNoHash(last.text, k)

C2_Sticky ==
    \A k \in DeclaredNames :
        (~IsDefault(options[k]) /\ ~last'.restart) => ~IsDefault(options'[k])

\* C2: the flag and the marking hold in every state, and no step of a run
\* turns a false is_default() true
C2_StickyDefault == [](C2_DefaultFlag /\ C2_Marking) /\ [][C2_Sticky]_vars

\* opt1 was set away from its default and back: the text is returned with
\* opt1=10 not commented out
C2_Witness ==
    /\ TextReturned
    /\ options[<<"o", "p", "t", "1">>].value = 10
    /\ ~IsDefault(options[<<"o", "p", "t", "1">>])
    /\ HasNoHash(last.text, <<"o", "p", "t", "1">>)

(***************************************************************************)
(* C3  The claim as stated: in the text of to_config_string(), an          *)
(* option's assignment line begins with '#' iff the option's current       *)
(* value equals its default value.                                         *)
(***************************************************************************)
C3_HashIffValueIsDefault ==
    TextReturned =>
        \A k \in DeclaredNames :
            HasHash(last.text, k) <=> (options[k].value = Declared(k).dflt)

(***************************************************************************)
(* C3 as amended: the assignment line begins with '#' iff the current      *)
(* value equals the default and no assignment has ever supplied a value    *)
(* different from the default; otherwise the line is written without '#'.  *)
(***************************************************************************)
C3_HashIffNeverChanged ==
    TextReturned =>
        \A k \in DeclaredNames :
            /\ HasHash(last.text, k) <=>
                   (options[k].value = Declared(k).dflt /\ ~assignedNonDefault[k])
            /\ ~HasHash(last.text, k) => HasNoHash(last.text, k)

\* opt5 holds its default again after having been true: its line has no '#'
C3_Witness ==
    /\ TextReturned
    /\ options[<<"o", "p", "t", "5">>].value = FALSE
    /\ assignedNonDefault[<<"o", "p", "t", "5">>]
    /\ HasNoHash(last.text, <<"o", "p", "t", "5">>)
    /\ HasHash(last.text, <<"o", "p", "t", "1">>)

(***************************************************************************)
(* C4  The claim: get of a name that is not registered fails with          *)
(* UnknownKey and never returns a null record.                             *)
(***************************************************************************)
C4_GetUnknownFails ==
    (pc = "returned" /\ last.op = "get" /\ ~last.present) =>
        (last.err = "UnknownKey" /\ last.result # "null")

(***************************************************************************)
(* Passes of load( argc, argv ).                                           *)
(***************************************************************************)
\* this step is a pass of the loop of load( argc, argv ) that did not crash
ArgPassTaken == pc = "load_args" /\ last'.op = "arg" /\ pc' # "crashed"

\* the pass resolved its key token to a registered option
ResolvedKey(l) == l.name \in DOMAIN options /\ ~IsNull(options[l.name])

BeginsWithDashes(t) == Len(t) >= 2 /\ t[1] = "-" /\ t[2] = "-"

(***************************************************************************)
(* C5  The claim: when the key of a registered non-boolean option is the   *)
(* last argument, the pass fails with MissingValue and reads no element    *)
(* of argv at an index >= argc.                                            *)
(***************************************************************************)
C5_MissingValue ==
    (/\ last.op = "arg"
     /\ ResolvedKey(last)
     /\ ~IsBool(options[last.name])
     /\ last.keyIdx + 1 = last.argc) =>
        (last.err = "MissingValue" /\ last.valIdx = 0)

(***************************************************************************)
(* C6  The claim: a token in key position that is shorter than 3           *)
(* characters or does not begin with "--" makes the pass fail with         *)
(* InvalidOption; it is resolved to no option and no option is modified.   *)
(***************************************************************************)
C6_KeyValidation ==
    [][(ArgPassTaken /\ (Len(last'.tok) < 3 \/ ~BeginsWithDashes(last'.tok))) =>
          (last'.err = "InvalidOption" /\ last'.name = <<>> /\ options' = options)]_vars

(***************************************************************************)
(* C7  Boolean presence.  Every pass reads its key at idx.  A pass whose   *)
(* key names a boolean option sets it to true, reads no other argument     *)
(* and leaves idx at the next argument, which (when there is one) is       *)
(* the key of the next pass.  A pass whose key names a non-boolean option  *)
(* and is followed by an argument reads exactly that argument as the       *)
(* value, assigns what it decodes to and, when it succeeds, leaves idx     *)
(* behind the value.                                                       *)
(***************************************************************************)
C7_Pass ==
    ArgPassTaken =>
        /\ last'.keyIdx = idx
        /\ (ResolvedKey(last') /\ IsBool(options[last'.name])) =>
               /\ last'.err = "none"
               /\ last'.valIdx = 0
               /\ options'[last'.name].value = TRUE
               /\ \A k \in DOMAIN options \ {last'.name} : options'[k] = options[k]
               /\ IF idx + 1 < argc
                  THEN pc' = "load_args" /\ idx' = idx + 1
                  ELSE pc' = "returned"
        /\ (ResolvedKey(last') /\ ~IsBool(options[last'.name]) /\ idx + 1 < argc) =>
               /\ last'.valIdx = idx + 1
               /\ last'.err = "none" =>
                      /\ options'[last'.name].value =
                             FromString(options[last'.name].type, last'.str).val
                      /\ IF idx + 2 < argc
                         THEN pc' = "load_args" /\ idx' = idx + 2
                         ELSE pc' = "returned"

\* C7: every pass of the loop consumes the arguments as C7_Pass says
C7_BooleanPresence == [][C7_Pass]_vars

\* the flag --opt5 was the first of two arguments: it is set, and the second
\* argument is the key of the next pass
C7_Witness ==
    /\ pc = "load_args"
    /\ last.op = "arg"
    /\ last.tok = <<"-", "-", "o", "p", "t", "5">>
    /\ last.keyIdx = 1
    /\ idx = 2
    /\ argc = 3
    /\ options[<<"o", "p", "t", "5">>].value = TRUE

(***************************************************************************)
(* C8  Invalid value.  A pass whose key names a non-boolean option and is  *)
(* followed by an argument that begins with "--" fails with InvalidValue   *)
(* and modifies no option.                                                 *)
(***************************************************************************)
C8_Pass ==
    (/\ ArgPassTaken
     /\ ResolvedKey(last')
     /\ ~IsBool(options[last'.name])
     /\ idx + 1 < argc
     /\ BeginsWithDashes(last'.str)) =>
        (last'.err = "InvalidValue" /\ options' = options /\ pc' = "returned")

\* C8: every pass whose value argument begins with "--" fails with
\* InvalidValue and modifies nothing
C8_InvalidValue == [][C8_Pass]_vars

\* --opt3 -- : the string option was followed by the argument "--"
C8_Witness ==
    /\ pc = "returned"
    /\ last.op = "arg"
    /\ last.name = <<"o", "p", "t", "3">>
    /\ last.str = <<"-", "-">>
    /\ last.valIdx = 2
    /\ last.argc = 3
    /\ last.err = "InvalidValue"

(***************************************************************************)
(* C9  Partial application without rollback.  The pass of a loader (text   *)
(* or command line) that meets an unknown key, a malformed entry (a line   *)
(* without a key, an invalid key or value token) or a value that cannot    *)
(* be decoded ends the load with that error and modifies no option: what   *)
(* the passes before it assigned stays, and no later entry is processed.   *)
(***************************************************************************)
LoadFailures == {"UnknownKey", "NoKey", "ParseError", "InvalidOption", "InvalidValue"}

C9_Pass ==
    (pc \in {"load_stream", "load_args"} /\ last'.err \in LoadFailures) =>
        /\ options' = options
        /\ assignedNonDefault' = assignedNonDefault
        /\ pc' = "returned"

\* once a load has failed, the options stay as they are until the next call
C9_AfterFailure ==
    (pc = "returned" /\ last.err \in LoadFailures) => options' = options

\* C9: a failing pass modifies no option and ends the load, and nothing is
\* modified after it
C9_PartialApplication == [][C9_Pass /\ C9_AfterFailure]_vars

\* a text failed to decode on its second line after its first line had
\* assigned opt1
C9_Witness ==
    /\ pc = "returned"
    /\ last.op = "line"
    /\ last.err = "ParseError"
    /\ last.line = <<"0">>
    /\ last.name = <<"o", "p", "t", "5">>
    /\ options[<<"o", "p", "t", "1">>].value = -7
    /\ options[<<"o", "p", "t", "5">>].value = FALSE

(***************************************************************************)
(* C10  The claim: parse_value_from_str on an integer option succeeds      *)
(* only when the whole string is a numeral.                                *)
(***************************************************************************)
\* an optional sign followed by digits and nothing else
IsNumeral(s) ==
    LET body == IF s # <<>> /\ Head(s) \in {"-", "+"} THEN Tail(s) ELSE s
    IN  body # <<>> /\ \A i \in 1..Len(body) : IsDigit(body[i])

C10_WholeStringNumeral ==
    (/\ pc = "returned"
     /\ last.op = "parse"
     /\ last.name \in DeclaredNames
     /\ Declared(last.name).type = "int"
     /\ last.err = "none") => IsNumeral(last.str)

(***************************************************************************)
(* C11: parse_value_from_str on a boolean option.                          *)
(***************************************************************************)
BoolLiterals == {<<"t", "r", "u", "e">>, <<"f", "a", "l", "s", "e">>}

\* a step that is a call of parse_value_from_str( last'.str ) on the boolean
\* option last'.name
BoolParseCall ==
    /\ pc = "main"
    /\ last'.op = "parse"
    /\ last'.name \in DeclaredNames
    /\ Declared(last'.name).type = "bool"

\* C11: parse_value_from_str on a boolean option succeeds exactly for the
\* strings "true" and "false" and then stores that value; for every other
\* string it fails with ParseError and leaves the option record (its value
\* and its is_default flag) as it was
C11_BoolParseStrict ==
    [][BoolParseCall =>
          /\ pc' = "returned"
          /\ IF last'.str \in BoolLiterals
             THEN /\ last'.err = "none"
                  /\ options'[last'.name].value = (last'.str = <<"t", "r", "u", "e">>)
             ELSE /\ last'.err = "ParseError"
                  /\ options'[last'.name] = options[last'.name]]_vars

\* "True" was refused on opt5 while it held the non-default value true
C11_Witness ==
    /\ pc = "returned"
    /\ last.op = "parse"
    /\ last.name = <<"o", "p", "t", "5">>
    /\ last.str = <<"T", "r", "u", "e">>
    /\ last.err = "ParseError"
    /\ options[<<"o", "p", "t", "5">>].value = TRUE
    /\ ~options[<<"o", "p", "t", "5">>].is_def

(***************************************************************************)
(* C12: quoted strings in the text loader.                                 *)
(***************************************************************************)
StringOptions == {k \in DeclaredNames : Declared(k).type = "string"}

\* line b has the form  key = "s"  for the option k: up to its first double
\* quote it holds k and '=' and spaces only, and after its last double quote
\* it holds spaces only
QuotedForm(b, k) ==
    LET f == FindFirstOf(b, "\"")
        g == FindLastOf(b, "\"")
    IN  /\ f # Npos(b)
        /\ g > f
        /\ RemoveSpaces(Substr(b, 0, f)) = k \o <<"=">>
        /\ RemoveSpaces(Substr(b, g + 1, Len(b))) = <<>>

\* the characters between the first and the last double quote of b
Quoted(b) ==
    LET f == FindFirstOf(b, "\"")
        g == FindLastOf(b, "\"")
    IN  [i \in 1..(g - f - 1) |-> b[f + 1 + i]]

\* C12: the pass of the text loader over a line of the form  key = "s"  for
\* a string option ends without error and leaves the option with exactly the
\* characters between the first and the last double quote of the line
C12_QuotedString ==
    [][\A k \in StringOptions :
          (pc = "load_stream" /\ QuotedForm(buff, k)) =>
              /\ pc' \in {"load_stream", "returned"}
              /\ last'.op = "line"
              /\ last'.str = buff
              /\ last'.err = "none"
              /\ options'[k].value = Quoted(buff)]_vars

\* the line  opt3 = " a b "  with spaces around it was loaded
C12_Witness ==
    /\ pc \in {"load_stream", "returned"}
    /\ last.op = "line"
    /\ last.str = <<" ", "o", "p", "t", "3", " ", "=", " ", "\"", " ", "a", " ", "b", " ", "\"", " ">>
    /\ last.err = "none"
    /\ options[<<"o", "p", "t", "3">>].value = <<" ", "a", " ", "b", " ">>

(***************************************************************************)
(* C13: the line numbers in the errors of the text loader.                 *)
(***************************************************************************)
\* the last pass of the text loader threw an error that carries a line number
LineErrorThrown ==
    /\ pc = "returned"
    /\ last.op = "line"
    /\ last.err \in {"NoKey", "ParseError"}

\* C13: the error for a line without a key and the error for a value that
\* cannot be decoded both carry the number of the offending line counted
\* from 1, and the latter names the key of that line
C13_OneBasedLineNumbers ==
    LineErrorThrown =>
        /\ last.line = NatToString(last.lineNo)
        /\ (last.err = "ParseError" => last.name \in DeclaredNames)

(***************************************************************************)
(* C14: option_by_index.                                                   *)
(***************************************************************************)
\* C14: option_by_index( i ) returns, for i < size(), the option of the i-th
\* key in the order of the keys, and for i >= size() the null pointer
\* without having incremented its iterator at the end of the registry
C14_IndexedEnumeration ==
    last.op = "option_by_index" =>
        /\ pc = "returned"
        /\ IF last.index < Size(options)
           THEN /\ last.result = "option"
                /\ last.name = KeyOrder(DOMAIN options)[last.index + 1]
           ELSE /\ last.result = "null"
                /\ ~last.pastEnd

(***************************************************************************)
(* C15: the keys of the registry.                                          *)
(***************************************************************************)
\* C15: the keys of the registry are the registered names, whatever calls of
\* get, size, option_by_index, to_config_string and the loaders were made,
\* and each key maps to an option record (no null pointer) of that name
C15_RegistryFrame ==
    /\ DOMAIN options = DeclaredNames
    /\ Size(options) = Cardinality(DeclaredNames)
    /\ \A k \in DOMAIN options : ~IsNull(options[k]) /\ options[k].name = k

(***************************************************************************)
(* C16: progress of the text loader.                                       *)
(***************************************************************************)
\* a load( _isr ) has returned without an error
LoadReturned ==
    /\ pc = "returned"
    /\ last.op \in {"load_stream", "line"}
    /\ last.err = "none"

\* when load( _isr ) returns without an error it has made one pass for each
\* line of its input
C16_AllHandled == LoadReturned => last.lineNo = last.total

\* no pass is made for a line the input does not have
C16_NoExtraPass == last.op \in {"load_stream", "line"} => last.lineNo <= last.total

\* a pass is over the line read last, the next line of the input; a line
\* that assigns leaves its key with the value it gives and the other options
\* as they were
C16_Pass ==
    pc = "load_stream" =>
        /\ last'.op = "line"
        /\ last'.str = buff
        /\ last'.lineNo = last.lineNo + 1
        /\ (pc' # "crashed" /\ last'.result = "processed" /\ last'.err = "none") =>
               LET k == last'.name
                   v == ProcessLine(options, buff, linenum).value
               IN  /\ k \in DOMAIN options
                   /\ options'[k].value = FromString(options[k].type, v).val
                   /\ \A j \in DOMAIN options \ {k} : options'[j] = options[j]
        /\ last'.result = "skipped" => options' = options

\* load( _isr ) of an empty input returns at once and changes no option
C16_Empty ==
    (pc = "main" /\ last'.op = "load_stream" /\ last'.err = "none" /\ last'.total = 0) =>
        /\ pc' = "returned"
        /\ options' = options

\* C16: load( _isr ) on a readable input ends; when it ends without an error
\* it has made exactly one pass for each line of the input, in the order of
\* the input and the last line without a line break included, each assigning
\* line giving its key its value, so that the last line for a key decides;
\* on an empty input it ends with the options unchanged
C16_Progress ==
    /\ [](C16_AllHandled /\ C16_NoExtraPass)
    /\ [][C16_Pass /\ C16_Empty]_vars
    /\ (pc = "load_stream") ~> (pc # "load_stream")

\* a text of two lines that both assign opt1, the second without a line
\* break, was loaded and opt1 has the value of the second
C16_Witness ==
    /\ LoadReturned
    /\ last.total = 2
    /\ last.lineNo = 2
    /\ ~last.term
    /\ last.prev = <<"o", "p", "t", "1">>
    /\ last.name = <<"o", "p", "t", "1">>
    /\ last.str = <<"o", "p", "t", "1", " ", "=", " ", "-", "7">>
    /\ options[<<"o", "p", "t", "1">>].value = -7
====
